---- MODULE Spec2Model ----
(***************************************************************************)
(* Model of the counseling application: the express/SQLite HTTP API of     *)
(* server.ts (announcements, ratings, socket.io broadcasts), the advice    *)
(* generator of geminiService.ts and the view/chat state of App.tsx.       *)
(***************************************************************************)
EXTENDS Integers, Sequences, FiniteSets, TLC

VARIABLES
    clock,              \* wall clock of the server process, in whole seconds
    announcementsTable, \* rows of table announcements
    seqAnnouncements,   \* sqlite_sequence entry of announcements (AUTOINCREMENT)
    ratingsTable,       \* rows of table ratings
    seqRatings,         \* sqlite_sequence entry of ratings
    emitted,            \* io.emit calls made so far, in order
    log,                \* HTTP exchanges answered so far, in order
    view,               \* App state: the view shown
    worry,              \* App state: the text of the chat input
    messages,           \* App state: the chat messages
    isLoading,          \* App state: the loading flag
    elapsedTime,        \* App state: seconds shown while loading
    timer,              \* whether the interval of the ticker effect is set
    announcements,      \* App state: the client's announcement list
    newAnnouncementAlert, \* App state: the announcement of the toast, or Null
    pendingAdvice,      \* getCounselingAdvice calls awaited by handleSubmit
    pendingRates,       \* fetches of /api/ratings awaited by handleRate
    turns,              \* number of submits accepted so far
    lastCall,           \* the getCounselingAdvice call that ended last: outcome and result
    turnsAtReset,       \* the number of submits accepted before the last resetChat
    requests,           \* fetch requests of the client the server has not handled yet
    responses,          \* answers to the client's fetches that have not reached it yet
    delivered           \* number of the emitted events the client's socket received

serverVars == <<clock, announcementsTable, seqAnnouncements, ratingsTable,
                seqRatings, emitted, log>>

clientVars == <<view, worry, messages, isLoading, elapsedTime, timer, announcements,
                newAnnouncementAlert, pendingAdvice, pendingRates, turns, lastCall,
                turnsAtReset>>

netVars == <<requests, responses, delivered>>

vars == <<serverVars, clientVars, netVars>>

----------------------------------------------------------------------------
(* Bounds *)

MaxReqs == 4
MaxSec == 1
MaxTurns == 2
MaxElapsed == 1
MaxList == 2
MaxInFlight == 1
MaxPendingRates == 1

----------------------------------------------------------------------------
(* JavaScript values carried by JSON request bodies *)

Undefined == [type |-> "undefined"]
Str(s) == [type |-> "string", str |-> s]
Num(n) == [type |-> "number", num |-> n]

\* The operand test of `!x`
Falsy(v) ==
    \/ v.type = "undefined"
    \/ v.type = "string" /\ v.str = ""
    \/ v.type = "number" /\ v.num = 0

Titles == {Undefined, Str(""), Str("A")}
Contents == {Undefined, Str(""), Str("x")}
MessageIds == {Undefined, Str(""), Str("m1")}
RatingValues == {Undefined, Num(0), Num(5), Num(9)}

\* Route parameters are strings: sequences of characters
Digit == {"0", "1", "2", "3", "4", "5", "6", "7", "8", "9"}
IdParams == {<<"1">>, <<"2">>, <<"0", "1">>, <<"x">>}

DigitVal(c) ==
    CASE c = "0" -> 0 [] c = "1" -> 1 [] c = "2" -> 2 [] c = "3" -> 3 [] c = "4" -> 4
      [] c = "5" -> 5 [] c = "6" -> 6 [] c = "7" -> 7 [] c = "8" -> 8 [] c = "9" -> 9

IsIntegerLiteral(s) == Len(s) > 0 /\ \A i \in 1..Len(s) : s[i] \in Digit

RECURSIVE DecimalValue(_)
DecimalValue(s) ==
    IF s = <<>> THEN 0
    ELSE 10 * DecimalValue(SubSeq(s, 1, Len(s) - 1)) + DigitVal(s[Len(s)])

\* `WHERE id = ?` with a TEXT parameter: the INTEGER affinity of the column
\* converts a well-formed integer literal, any other text matches no row
MatchesId(row, param) ==
    IsIntegerLiteral(param) /\ row.id = DecimalValue(param)

----------------------------------------------------------------------------
(* Time *)

AtEnd(c) == c = MaxSec

Later(c) == c + 1

\* The time a handler may take between two of its statements
Elapsed(c) == IF AtEnd(c) THEN {0} ELSE {0, 1}

After(c, d) == IF d = 0 THEN c ELSE Later(c)

\* DEFAULT CURRENT_TIMESTAMP: the text 'YYYY-MM-DD HH:MM:SS'
CurrentTimestamp(c) == [fmt |-> "YYYY-MM-DD HH:MM:SS", sec |-> c]

\* new Date().toISOString(): the text 'YYYY-MM-DDTHH:MM:SS.sssZ'
ToISOString(c) == [fmt |-> "YYYY-MM-DDTHH:MM:SS.sssZ", sec |-> c]

----------------------------------------------------------------------------
(* Client values *)

Null == [id |-> 0]

NoCall == [turn |-> 0]

\* Texts of the client are sequences of characters
Worries == {<<>>, <<" ">>, <<"h", "i">>}

RECURSIVE Trim(_)
Trim(s) ==
    IF s = <<>> THEN s
    ELSE IF Head(s) = " " THEN Trim(Tail(s))
    ELSE IF s[Len(s)] = " " THEN Trim(SubSeq(s, 1, Len(s) - 1))
    ELSE s

\* The announcements the socket may deliver to the client
Deliverable == {[id |-> 1, title |-> "A", content |-> "x", created_at |-> ToISOString(0)]}

Stars == {5}

\* parseInt: the leading digits of the text, NaN (here -1) without any
RECURSIVE LeadingDigits(_)
LeadingDigits(s) ==
    IF s = <<>> \/ Head(s) \notin Digit THEN <<>>
    ELSE <<Head(s)>> \o LeadingDigits(Tail(s))

ParseInt(s) == IF LeadingDigits(s) = <<>> THEN -1 ELSE DecimalValue(LeadingDigits(s))

----------------------------------------------------------------------------
(* Persistence store *)

Max(S) == CHOOSE x \in S : \A y \in S : y <= x

Ids(rows) == {r.id : r \in rows}

\* INTEGER PRIMARY KEY AUTOINCREMENT: one more than the largest rowid that
\* ever existed in the table
NextRowidNoAutoincrement(rows, seq) == Max(Ids(rows) \cup {0}) + 1
NextRowid(rows, seq) == Max(Ids(rows) \cup {seq}) + 1

\* All orders of `rows` in a sequence
Orders(rows) ==
    {s \in [1..Cardinality(rows) -> rows] : \A r \in rows : \E i \in DOMAIN s : s[i] = r}

\* SELECT * FROM announcements ORDER BY created_at DESC: the order among
\* rows of equal created_at is unspecified
SelectAnnouncements(rows) ==
    {s \in Orders(rows) :
        \A i, j \in DOMAIN s : i < j => s[i].created_at.sec >= s[j].created_at.sec}

----------------------------------------------------------------------------
Init ==
    /\ clock = 0
    /\ announcementsTable = {}
    /\ seqAnnouncements = 0
    /\ ratingsTable = {}
    /\ seqRatings = 0
    /\ emitted = <<>>
    /\ log = <<>>
    /\ view = "start"
    /\ worry = <<>>
    /\ messages = <<>>
    /\ isLoading = FALSE
    /\ elapsedTime = 0
    /\ timer = FALSE
    /\ announcements = <<>>
    /\ newAnnouncementAlert = Null
    /\ pendingAdvice = {}
    /\ pendingRates = {}
    /\ turns = 0
    /\ lastCall = NoCall
    /\ turnsAtReset = 0
    /\ requests = <<>>
    /\ responses = <<>>
    /\ delivered = 0

----------------------------------------------------------------------------
(* HTTP API: each handler runs to completion (better-sqlite3 is synchronous) *)

Exchange(route, param, body, status, answer) ==
    [route |-> route, param |-> param, req |-> body, status |-> status, body |-> answer]

\* The validation of POST /api/announcements
AnnouncementRejectedIfBothMissing(title, content) == Falsy(title) /\ Falsy(content)
AnnouncementRejected(title, content) == Falsy(title) \/ Falsy(content)

\* GET /api/announcements
GetAnnouncements ==
    /\ Len(log) < MaxReqs
    /\ \E rows \in SelectAnnouncements(announcementsTable) :
          log' = Append(log, Exchange("GET /api/announcements", <<>>, Undefined, 200, rows))
    /\ UNCHANGED <<clock, announcementsTable, seqAnnouncements, ratingsTable,
                   seqRatings, emitted>>
    /\ UNCHANGED clientVars

\* What the handler of POST /api/announcements broadcasts and answers; `row`
\* is the row the INSERT stored, `now` the time of the later new Date()
NewAnnouncement(row, title, content, now) ==
    [id |-> row.id, title |-> title, content |-> content, created_at |-> ToISOString(now)]

\* POST /api/announcements
PostAnnouncement(title, content) ==
    /\ Len(log) < MaxReqs
    /\ IF AnnouncementRejected(title, content)
       THEN /\ log' = Append(log, Exchange("POST /api/announcements", <<>>,
                         [title |-> title, content |-> content], 400,
                         [error |-> "Title and content are required"]))
            /\ UNCHANGED <<clock, announcementsTable, seqAnnouncements, emitted>>
       ELSE \E d \in Elapsed(clock) :
            LET row == [id |-> NextRowid(announcementsTable, seqAnnouncements),
                        title |-> title, content |-> content,
                        created_at |-> CurrentTimestamp(clock)]
                newAnnouncement == NewAnnouncement(row, title, content, After(clock, d))
            IN /\ announcementsTable' = announcementsTable \cup {row}
               /\ seqAnnouncements' = row.id
               /\ clock' = After(clock, d)
               /\ emitted' = Append(emitted, [event |-> "new_announcement",
                                              payload |-> newAnnouncement])
               /\ log' = Append(log, Exchange("POST /api/announcements", <<>>,
                            [title |-> title, content |-> content], 200, newAnnouncement))
    /\ UNCHANGED <<ratingsTable, seqRatings>>
    /\ UNCHANGED clientVars

\* The rows `DELETE FROM announcements WHERE id = ?` removes
DeletedRowsAll(rows, id) == rows
DeletedRows(rows, id) == {r \in rows : MatchesId(r, id)}

\* Whether the handler of DELETE answers 404 for `changes` removed rows
DeleteNotFoundNever(changes) == FALSE
DeleteNotFound(changes) == changes = 0

\* DELETE /api/announcements/:id
DeleteAnnouncement(id) ==
    /\ Len(log) < MaxReqs
    /\ LET gone == DeletedRows(announcementsTable, id)
       IN /\ announcementsTable' = announcementsTable \ gone
          /\ IF DeleteNotFound(Cardinality(gone))
             THEN /\ log' = Append(log, Exchange("DELETE /api/announcements/:id", id, Undefined, 404,
                               [error |-> "Announcement not found"]))
                  /\ UNCHANGED emitted
             ELSE /\ emitted' = Append(emitted, [event |-> "delete_announcement",
                                                 payload |-> id])
                  /\ log' = Append(log, Exchange("DELETE /api/announcements/:id", id, Undefined, 200,
                               [success |-> TRUE]))
    /\ UNCHANGED <<clock, seqAnnouncements, ratingsTable, seqRatings>>
    /\ UNCHANGED clientVars

\* The validation of POST /api/ratings
RatingRejectedIfNoMessageId(message_id, rating) == Falsy(message_id)
RatingRejected(message_id, rating) == Falsy(message_id) \/ Falsy(rating)

\* POST /api/ratings
PostRating(message_id, rating) ==
    /\ Len(log) < MaxReqs
    /\ IF RatingRejected(message_id, rating)
       THEN /\ log' = Append(log, Exchange("POST /api/ratings", <<>>,
                         [message_id |-> message_id, rating |-> rating], 400,
                         [error |-> "Message ID and rating are required"]))
            /\ UNCHANGED <<ratingsTable, seqRatings>>
       ELSE LET row == [id |-> NextRowid(ratingsTable, seqRatings),
                        message_id |-> message_id, rating |-> rating,
                        created_at |-> CurrentTimestamp(clock)]
            IN /\ ratingsTable' = ratingsTable \cup {row}
               /\ seqRatings' = row.id
               /\ log' = Append(log, Exchange("POST /api/ratings", <<>>,
                            [message_id |-> message_id, rating |-> rating], 200,
                            [id |-> row.id]))
    /\ UNCHANGED <<clock, announcementsTable, seqAnnouncements, emitted>>
    /\ UNCHANGED clientVars
    /\ UNCHANGED netVars

\* Time passes between two requests
Tick ==
    /\ ~AtEnd(clock)
    /\ clock' = Later(clock)
    /\ UNCHANGED <<announcementsTable, seqAnnouncements, ratingsTable, seqRatings,
                   emitted, log>>
    /\ UNCHANGED clientVars
    /\ UNCHANGED netVars

\* Requests of other clients
GetAnnouncementsReq == GetAnnouncements /\ UNCHANGED netVars
PostAnnouncementReq ==
    /\ \E title \in Titles, content \in Contents : PostAnnouncement(title, content)
    /\ UNCHANGED netVars
DeleteAnnouncementReq ==
    /\ \E id \in IdParams : DeleteAnnouncement(id)
    /\ UNCHANGED netVars
PostRatingReq == \E message_id \in MessageIds, rating \in RatingValues : PostRating(message_id, rating)

NextAnnouncements ==
    \/ GetAnnouncementsReq
    \/ PostAnnouncementReq
    \/ DeleteAnnouncementReq
    \/ Tick

\* The announcement routes of the HTTP API
SpecAnnouncements == Init /\ [][NextAnnouncements]_vars

NextRatings ==
    \/ PostRatingReq
    \/ Tick

\* The rating route of the HTTP API
SpecRatings == Init /\ [][NextRatings]_vars

----------------------------------------------------------------------------
(* Advice generator (geminiService.ts) *)

\* What ai.models.generateContent may do: answer with a text, with an empty
\* text, with no text at all, or fail
UpstreamOutcomes ==
    {[kind |-> "text", text |-> <<"#", "o", "k">>], [kind |-> "text", text |-> <<>>],
     [kind |-> "no_text"], [kind |-> "error"]}

GenerationFallback == <<"sorry, there was a problem generating the advice; try again">>
ConnectionFallback == <<"the connection to the counselor is not smooth; try again later">>

Return(value) == [kind |-> "return", value |-> value]
Throw == [kind |-> "throw"]

GetCounselingAdviceRethrows(w, outcome) ==
    IF outcome.kind = "error" THEN Throw
    ELSE IF outcome.kind = "no_text" \/ outcome.text = <<>> THEN Return(GenerationFallback)
    ELSE Return(outcome.text)

\* getCounselingAdvice: `response.text || fallback` in the try block, the
\* other fallback in the catch block
GetCounselingAdvice(w, outcome) ==
    IF outcome.kind = "error" THEN Return(ConnectionFallback)
    ELSE IF outcome.kind = "no_text" \/ outcome.text = <<>> THEN Return(GenerationFallback)
    ELSE Return(outcome.text)

----------------------------------------------------------------------------
(* Client application (App.tsx) *)

Views == {"start", "home", "chat", "admin"}

serverUnchanged == UNCHANGED serverVars

\* Message ids are Date.now() readings; the model numbers them, user then
\* assistant, by the turn that made them
UserMessage(turn, w) == [id |-> 2 * turn - 1, role |-> "user", content |-> w, rating |-> 0]
AssistantMessage(turn, advice) ==
    [id |-> 2 * turn, role |-> "assistant", content |-> advice, rating |-> 0]

\* The buttons of a view and what they set the view to (setView calls)
SetViewTargetsMisrouted(v) ==
    CASE v = "start" -> {"chat", "home", "admin"}
      [] v = "home" -> {"start", "chat"}
      [] v = "admin" -> {"start", "home"}
      [] v = "chat" -> {"start", "home"}
SetViewTargets(v) ==
    CASE v = "start" -> {"chat", "home", "admin"}
      [] v = "home" -> {"start", "chat"}
      [] v = "admin" -> {"start"}
      [] v = "chat" -> {"start", "home"}

\* onClick={() => setView(target)} of the view shown
SetView(target) ==
    /\ target \in SetViewTargets(view)
    /\ view' = target
    /\ UNCHANGED <<worry, messages, isLoading, elapsedTime, timer, announcements,
                   newAnnouncementAlert, pendingAdvice, pendingRates, turns, lastCall, turnsAtReset>>
    /\ serverUnchanged
    /\ UNCHANGED netVars

\* The toast's button: setView('home'); setNewAnnouncementAlert(null)
AlertViewNow ==
    /\ newAnnouncementAlert # Null
    /\ view' = "home"
    /\ newAnnouncementAlert' = Null
    /\ UNCHANGED <<worry, messages, isLoading, elapsedTime, timer, announcements,
                   pendingAdvice, pendingRates, turns, lastCall, turnsAtReset>>
    /\ serverUnchanged
    /\ UNCHANGED netVars

\* The toast's close button
AlertDismiss ==
    /\ newAnnouncementAlert # Null
    /\ newAnnouncementAlert' = Null
    /\ UNCHANGED <<view, worry, messages, isLoading, elapsedTime, timer, announcements,
                   pendingAdvice, pendingRates, turns, lastCall, turnsAtReset>>
    /\ serverUnchanged
    /\ UNCHANGED netVars

\* socket.on('new_announcement')
OnNewAnnouncement(a) ==
    /\ Len(announcements) < MaxList
    /\ announcements' = <<a>> \o announcements
    /\ newAnnouncementAlert' = a
    /\ UNCHANGED <<view, worry, messages, isLoading, elapsedTime, timer,
                   pendingAdvice, pendingRates, turns, lastCall, turnsAtReset>>
    /\ serverUnchanged

\* prev.filter(a => a.id !== parseInt(id))
RECURSIVE FilterOut(_, _)
FilterOut(list, n) ==
    IF list = <<>> THEN <<>>
    ELSE IF Head(list).id # n THEN <<Head(list)>> \o FilterOut(Tail(list), n)
    ELSE FilterOut(Tail(list), n)

\* socket.on('delete_announcement')
OnDeleteAnnouncement(id) ==
    /\ announcements' = FilterOut(announcements, ParseInt(id))
    /\ UNCHANGED <<view, worry, messages, isLoading, elapsedTime, timer,
                   newAnnouncementAlert, pendingAdvice, pendingRates, turns, lastCall, turnsAtReset>>
    /\ serverUnchanged

\* onChange of the chat input
SetWorry(w) ==
    /\ view = "chat"
    /\ worry' = w
    /\ UNCHANGED <<view, messages, isLoading, elapsedTime, timer, announcements,
                   newAnnouncementAlert, pendingAdvice, pendingRates, turns, lastCall, turnsAtReset>>
    /\ serverUnchanged
    /\ UNCHANGED netVars

\* The early return of handleSubmit
SubmitRejectedIfEmpty(w, loading) == Trim(w) = <<>>
SubmitRejected(w, loading) == Trim(w) = <<>> \/ loading

\* handleSubmit up to its await; the ticker effect runs with the commit of
\* isLoading = true: setElapsedTime(0) and setInterval
HandleSubmit ==
    /\ view = "chat"
    /\ IF SubmitRejected(worry, isLoading)
       THEN UNCHANGED clientVars
       ELSE /\ turns < MaxTurns
            /\ turns' = turns + 1
            /\ messages' = Append(messages, UserMessage(turns + 1, worry))
            /\ worry' = <<>>
            /\ isLoading' = TRUE
            /\ elapsedTime' = IF isLoading THEN elapsedTime ELSE 0
            /\ timer' = TRUE
            /\ pendingAdvice' = pendingAdvice \cup {[turn |-> turns + 1, worry |-> worry]}
            /\ UNCHANGED <<view, announcements, newAnnouncementAlert, pendingRates, lastCall, turnsAtReset>>
    /\ serverUnchanged
    /\ UNCHANGED netVars

\* handleSubmit from its await on: the try, catch and finally blocks; the
\* cleanup of the ticker effect runs with the commit of isLoading = false
AdviceSettles(p, outcome) ==
    /\ p \in pendingAdvice
    /\ LET result == GetCounselingAdvice(p.worry, outcome)
       IN /\ messages' = IF result.kind = "return"
                         THEN Append(messages, AssistantMessage(p.turn, result.value))
                         ELSE messages
          /\ lastCall' = [turn |-> p.turn, outcome |-> outcome, result |-> result]
    /\ pendingAdvice' = pendingAdvice \ {p}
    /\ isLoading' = FALSE
    /\ timer' = FALSE
    /\ UNCHANGED <<view, worry, elapsedTime, announcements, newAnnouncementAlert,
                   pendingRates, turns, turnsAtReset>>
    /\ serverUnchanged
    /\ UNCHANGED netVars

\* The callback of setInterval
IntervalTick ==
    /\ timer
    /\ elapsedTime < MaxElapsed
    /\ elapsedTime' = elapsedTime + 1
    /\ UNCHANGED <<view, worry, messages, isLoading, timer, announcements,
                   newAnnouncementAlert, pendingAdvice, pendingRates, turns, lastCall, turnsAtReset>>
    /\ serverUnchanged
    /\ UNCHANGED netVars

\* resetChat
ResetChat ==
    /\ view = "chat"
    /\ messages' = <<>>
    /\ view' = "start"
    /\ turnsAtReset' = turns
    /\ UNCHANGED <<worry, isLoading, elapsedTime, timer, announcements,
                   newAnnouncementAlert, pendingAdvice, pendingRates, turns, lastCall>>
    /\ serverUnchanged
    /\ UNCHANGED netVars

\* handleRate up to its await: the click on a heart of an assistant message
HandleRate(messageId, rating) ==
    /\ view = "chat"
    /\ \E i \in DOMAIN messages : messages[i].id = messageId /\ messages[i].role = "assistant"
    /\ Cardinality(pendingRates) < MaxPendingRates
    /\ [messageId |-> messageId, rating |-> rating] \notin pendingRates
    /\ pendingRates' = pendingRates \cup {[messageId |-> messageId, rating |-> rating]}
    /\ UNCHANGED <<view, worry, messages, isLoading, elapsedTime, timer, announcements,
                   newAnnouncementAlert, pendingAdvice, turns, lastCall, turnsAtReset>>
    /\ serverUnchanged
    /\ UNCHANGED netVars

\* prev.map(m => m.id === messageId ? { ...m, rating } : m)
SetRating(list, messageId, rating) ==
    [i \in DOMAIN list |->
        IF list[i].id = messageId THEN [list[i] EXCEPT !.rating = rating] ELSE list[i]]

\* handleRate from its await on: the fetch answered (with any status), or it
\* failed and the catch block only logs
RateSettles(r, answered) ==
    /\ r \in pendingRates
    /\ pendingRates' = pendingRates \ {r}
    /\ messages' = IF answered THEN SetRating(messages, r.messageId, r.rating) ELSE messages
    /\ UNCHANGED <<view, worry, isLoading, elapsedTime, timer, announcements,
                   newAnnouncementAlert, pendingAdvice, turns, lastCall, turnsAtReset>>
    /\ serverUnchanged
    /\ UNCHANGED netVars

SetViewClick == \E target \in Views : SetView(target)
OnNewAnnouncementEvent ==
    /\ \E a \in Deliverable : OnNewAnnouncement(a)
    /\ UNCHANGED netVars
OnDeleteAnnouncementEvent ==
    /\ \E id \in IdParams : OnDeleteAnnouncement(id)
    /\ UNCHANGED netVars
SetWorryInput == \E w \in Worries : SetWorry(w)
AdviceSettlesAny == \E p \in pendingAdvice, outcome \in UpstreamOutcomes : AdviceSettles(p, outcome)
HandleRateClick == \E i \in DOMAIN messages, rating \in Stars : HandleRate(messages[i].id, rating)
RateSettlesAny == \E r \in pendingRates, answered \in BOOLEAN : RateSettles(r, answered)

NextClient ==
    \/ SetViewClick
    \/ AlertViewNow
    \/ AlertDismiss
    \/ OnNewAnnouncementEvent
    \/ OnDeleteAnnouncementEvent
    \/ SetWorryInput
    \/ HandleSubmit
    \/ AdviceSettlesAny
    \/ IntervalTick
    \/ ResetChat
    \/ HandleRateClick
    \/ RateSettlesAny

\* One client: its views, its chat and the socket events it is sent
SpecClient == Init /\ [][NextClient]_vars

\* The client with the advice call sure to settle and the renders sure to run
FairClient == SpecClient /\ WF_vars(AdviceSettlesAny)

----------------------------------------------------------------------------
(* The client and the server: fetches, their answers and the socket *)

\* `/api/announcements/${id}`: the decimal digits of a number
DigitOf(n) ==
    CASE n = 0 -> "0" [] n = 1 -> "1" [] n = 2 -> "2" [] n = 3 -> "3" [] n = 4 -> "4"
      [] n = 5 -> "5" [] n = 6 -> "6" [] n = 7 -> "7" [] n = 8 -> "8" [] n = 9 -> "9"

RECURSIVE NumberToString(_)
NumberToString(n) == IF n < 10 THEN <<DigitOf(n)>> ELSE NumberToString(n \div 10) \o <<DigitOf(n % 10)>>

GetRequest == [kind |-> "GET"]
PostRequest(title, content) == [kind |-> "POST", title |-> title, content |-> content]
DeleteRequest(id) == [kind |-> "DELETE", id |-> id]

\* res.ok and the body of the exchange the server answered last
Response(kind, exchange) ==
    [kind |-> kind, ok |-> exchange.status \in 200..299, body |-> exchange.body]

Without(seq, i) == SubSeq(seq, 1, i - 1) \o SubSeq(seq, i + 1, Len(seq))

\* The form of the admin view: both fields are `required`
AdminTitles == {Str("A")}
AdminContents == {Str("x")}

\* The App is mounted: the effect has called fetchAnnouncements
InitSync ==
    /\ clock = 0
    /\ announcementsTable = {}
    /\ seqAnnouncements = 0
    /\ ratingsTable = {}
    /\ seqRatings = 0
    /\ emitted = <<>>
    /\ log = <<>>
    /\ view = "start"
    /\ worry = <<>>
    /\ messages = <<>>
    /\ isLoading = FALSE
    /\ elapsedTime = 0
    /\ timer = FALSE
    /\ announcements = <<>>
    /\ newAnnouncementAlert = Null
    /\ pendingAdvice = {}
    /\ pendingRates = {}
    /\ turns = 0
    /\ lastCall = NoCall
    /\ turnsAtReset = 0
    /\ requests = <<GetRequest>>
    /\ responses = <<>>
    /\ delivered = 0

\* The server handles a GET /api/announcements of the client
ServeGet(i) ==
    /\ requests[i].kind = "GET"
    /\ GetAnnouncements
    /\ requests' = Without(requests, i)
    /\ responses' = Append(responses, Response("GET", log'[Len(log')]))
    /\ UNCHANGED delivered

\* The server handles a POST /api/announcements of the client
ServePost(i) ==
    /\ requests[i].kind = "POST"
    /\ PostAnnouncement(requests[i].title, requests[i].content)
    /\ requests' = Without(requests, i)
    /\ responses' = Append(responses, Response("POST", log'[Len(log')]))
    /\ UNCHANGED delivered

\* The server handles a DELETE /api/announcements/:id of the client
ServeDelete(i) ==
    /\ requests[i].kind = "DELETE"
    /\ DeleteAnnouncement(requests[i].id)
    /\ requests' = Without(requests, i)
    /\ responses' = Append(responses, Response("DELETE", log'[Len(log')]))
    /\ UNCHANGED delivered

\* Another client's admin view posts an announcement
OtherClientPosts ==
    /\ \E title \in AdminTitles, content \in AdminContents : PostAnnouncement(title, content)
    /\ UNCHANGED netVars

\* Another client's admin view deletes an announcement it lists
OtherClientDeletes ==
    /\ \E r \in announcementsTable : DeleteAnnouncement(NumberToString(r.id))
    /\ UNCHANGED netVars

\* The socket delivers the next emitted event, a new_announcement
DeliverNewAnnouncement ==
    /\ delivered < Len(emitted)
    /\ emitted[delivered + 1].event = "new_announcement"
    /\ OnNewAnnouncement(emitted[delivered + 1].payload)
    /\ delivered' = delivered + 1
    /\ UNCHANGED <<requests, responses>>

\* The socket delivers the next emitted event, a delete_announcement
DeliverDeleteAnnouncement ==
    /\ delivered < Len(emitted)
    /\ emitted[delivered + 1].event = "delete_announcement"
    /\ OnDeleteAnnouncement(emitted[delivered + 1].payload)
    /\ delivered' = delivered + 1
    /\ UNCHANGED <<requests, responses>>

\* What fetchAnnouncements sets the list to
Fetched(list, data) == data

\* fetchAnnouncements from its await on: setAnnouncements(data)
ReceiveAnnouncements(j) ==
    /\ responses[j].kind = "GET"
    /\ announcements' = Fetched(announcements, responses[j].body)
    /\ responses' = Without(responses, j)
    /\ UNCHANGED <<view, worry, messages, isLoading, elapsedTime, timer,
                   newAnnouncementAlert, pendingAdvice, pendingRates, turns, lastCall,
                   turnsAtReset>>
    /\ UNCHANGED <<requests, delivered>>
    /\ serverUnchanged

\* handlePostAnnouncement up to its await (the texts of the form are not
\* kept in the model)
HandlePostAnnouncement(title, content) ==
    /\ view = "admin"
    /\ Len(requests) < MaxInFlight
    /\ requests' = Append(requests, PostRequest(title, content))
    /\ UNCHANGED <<responses, delivered>>
    /\ UNCHANGED clientVars
    /\ serverUnchanged

\* handleDeleteAnnouncement up to its await, the confirm dialog accepted
HandleDeleteAnnouncement(id) ==
    /\ view = "admin"
    /\ Len(requests) < MaxInFlight
    /\ requests' = Append(requests, DeleteRequest(NumberToString(id)))
    /\ UNCHANGED <<responses, delivered>>
    /\ UNCHANGED clientVars
    /\ serverUnchanged

\* handlePostAnnouncement and handleDeleteAnnouncement from their await on:
\* if (res.ok) fetchAnnouncements()
ReceiveMutated(j) ==
    /\ responses[j].kind \in {"POST", "DELETE"}
    /\ requests' = IF responses[j].ok THEN Append(requests, GetRequest) ELSE requests
    /\ responses' = Without(responses, j)
    /\ UNCHANGED delivered
    /\ UNCHANGED clientVars
    /\ serverUnchanged

ServeGetAny == \E i \in DOMAIN requests : ServeGet(i)
ServePostAny == \E i \in DOMAIN requests : ServePost(i)
ServeDeleteAny == \E i \in DOMAIN requests : ServeDelete(i)
ReceiveAnnouncementsAny == \E j \in DOMAIN responses : ReceiveAnnouncements(j)
ReceiveMutatedAny == \E j \in DOMAIN responses : ReceiveMutated(j)
HandlePostAnnouncementSubmit ==
    \E title \in AdminTitles, content \in AdminContents : HandlePostAnnouncement(title, content)
HandleDeleteAnnouncementClick ==
    \E i \in DOMAIN announcements : HandleDeleteAnnouncement(announcements[i].id)

NextSync ==
    \/ ServeGetAny
    \/ ServePostAny
    \/ ServeDeleteAny
    \/ OtherClientPosts
    \/ OtherClientDeletes
    \/ DeliverNewAnnouncement
    \/ DeliverDeleteAnnouncement
    \/ ReceiveAnnouncementsAny
    \/ ReceiveMutatedAny
    \/ HandlePostAnnouncementSubmit
    \/ HandleDeleteAnnouncementClick
    \/ SetViewClick
    \/ AlertViewNow
    \/ AlertDismiss

\* One connected client, the server and other clients' admin requests
SpecSync == InitSync /\ [][NextSync]_vars

----------------------------------------------------------------------------
(* Properties of the HTTP API *)

IsGet(e) == e.route = "GET /api/announcements"
IsPost(e) == e.route = "POST /api/announcements"
IsDelete(e) == e.route = "DELETE /api/announcements/:id"
IsRating(e) == e.route = "POST /api/ratings"

\* The exchange a step answers, when it answers one
Answers == Len(log') = Len(log) + 1
Answered == log'[Len(log')]

\* C1: a successful POST /api/announcements directly followed by
\* GET /api/announcements: the list starts with the record just created
C1_CreatedIsHead ==
    \A i \in 1..(Len(log) - 1) :
        (IsPost(log[i]) /\ log[i].status = 200 /\ IsGet(log[i + 1]))
            => /\ log[i + 1].body # <<>>
               /\ log[i + 1].body[1].id = log[i].body.id

\* C2: no GET after a successful DELETE of an id lists that id
C2_DeletedNotListed ==
    \A i, j \in DOMAIN log :
        (i < j /\ IsDelete(log[i]) /\ log[i].status = 200 /\ IsGet(log[j]))
            => \A k \in DOMAIN log[j].body : ~MatchesId(log[j].body[k], log[i].param)

\* C2: a DELETE of an id that is not in the store answers 404 and leaves the
\* stored announcements as they were; one that answers 200 removes the id
C2_DeleteStep ==
    (Answers /\ IsDelete(Answered)) =>
        LET present == \E r \in announcementsTable : MatchesId(r, Answered.param)
        IN /\ ~present => (Answered.status = 404 /\ announcementsTable' = announcementsTable)
           /\ Answered.status = 200 =>
                  \A r \in announcementsTable' : ~MatchesId(r, Answered.param)

\* C2: a deleted announcement is never listed again, and a DELETE of an id
\* that is not stored answers 404 and changes nothing
C2_Delete == []C2_DeletedNotListed /\ [][C2_DeleteStep]_vars

C2_Witness ==
    \E i, j, k \in DOMAIN log :
        /\ i < j /\ j < k
        /\ IsDelete(log[i]) /\ log[i].status = 200
        /\ IsDelete(log[j]) /\ log[j].status = 404
        /\ IsGet(log[k]) /\ log[k].body = <<>>

NewAnnouncementEvents == {i \in DOMAIN emitted : emitted[i].event = "new_announcement"}
DeleteAnnouncementEvents == {i \in DOMAIN emitted : emitted[i].event = "delete_announcement"}

\* C3: the payload of every new_announcement broadcast is the record the
\* store holds for its id (the one GET /api/announcements returns)
C3_PayloadIsStoredRecord ==
    \A i \in NewAnnouncementEvents :
        \A r \in announcementsTable :
            r.id = emitted[i].payload.id => emitted[i].payload = r

\* C4: a POST /api/announcements with a missing or empty title or content
\* answers 400 with an error body, stores no row and broadcasts nothing
C4_RejectedStep ==
    (Answers /\ IsPost(Answered) /\ (Falsy(Answered.req.title) \/ Falsy(Answered.req.content)))
        => /\ Answered.status = 400
           /\ DOMAIN Answered.body = {"error"}
           /\ announcementsTable' = announcementsTable
           /\ seqAnnouncements' = seqAnnouncements
           /\ emitted' = emitted

C4_Rejected == [][C4_RejectedStep]_vars

C4_Witness ==
    \E i, j \in DOMAIN log :
        /\ i < j
        /\ IsPost(log[i]) /\ log[i].status = 200
        /\ IsPost(log[j]) /\ log[j].status = 400 /\ ~Falsy(log[j].req.title)
        /\ announcementsTable # {}

\* C5: a POST /api/ratings with a missing or falsy message_id or rating
\* answers 400 and stores no row; the ratings table changes only on a
\* request with both fields
C5_RatingStep ==
    /\ (Answers /\ IsRating(Answered)
            /\ (Falsy(Answered.req.message_id) \/ Falsy(Answered.req.rating)))
        => (Answered.status = 400 /\ ratingsTable' = ratingsTable /\ seqRatings' = seqRatings)
    /\ ratingsTable' # ratingsTable
        => /\ Answers /\ IsRating(Answered)
           /\ ~Falsy(Answered.req.message_id) /\ ~Falsy(Answered.req.rating)

C5_RatingValidated == [][C5_RatingStep]_vars

C5_Witness ==
    \E i, j \in DOMAIN log :
        /\ i < j
        /\ IsRating(log[i]) /\ log[i].status = 200
        /\ IsRating(log[j]) /\ log[j].status = 400 /\ ~Falsy(log[j].req.message_id)
        /\ Cardinality(ratingsTable) = 1

\* The DELETE requests for the announcement id n, in the order answered
DeletesOf(n) ==
    {i \in DOMAIN log : IsDelete(log[i]) /\ IsIntegerLiteral(log[i].param)
                        /\ DecimalValue(log[i].param) = n}

CreatedBefore(n, i) ==
    \E k \in 1..(i - 1) : IsPost(log[k]) /\ log[k].status = 200 /\ log[k].body.id = n

\* C7: of the DELETE requests for one announcement id made after its create
\* the first answers 200 and every other 404; one delete_announcement broadcast
\* carries the id, and it is emitted with the row gone from the store
C7_OneDeleteSucceeds ==
    \A n \in 1..MaxReqs :
        /\ \A i \in DeletesOf(n) :
              log[i].status =
                  IF /\ CreatedBefore(n, i)
                     /\ \A k \in DeletesOf(n) : CreatedBefore(n, k) => i <= k
                  THEN 200 ELSE 404
        /\ Cardinality({i \in DeleteAnnouncementEvents : ParseInt(emitted[i].payload) = n})
              = Cardinality({i \in DeletesOf(n) : log[i].status = 200})
        /\ \A i \in DeleteAnnouncementEvents :
              ParseInt(emitted[i].payload) = n => n \notin Ids(announcementsTable)

C7_Witness ==
    \E i, j \in DOMAIN log :
        /\ i < j
        /\ IsDelete(log[i]) /\ log[i].status = 200 /\ log[i].param = <<"1">>
        /\ IsDelete(log[j]) /\ log[j].status = 404 /\ log[j].param = <<"0", "1">>
        /\ Len(emitted) = 2

\* C8: announcement ids are unique and every create assigns an id greater
\* than all ids assigned before, also after deletes
C8_IdsIncrease ==
    /\ \A r1, r2 \in announcementsTable : r1.id = r2.id => r1 = r2
    /\ \A i, j \in DOMAIN log :
          (i < j /\ IsPost(log[i]) /\ log[i].status = 200
                 /\ IsPost(log[j]) /\ log[j].status = 200)
              => log[i].body.id < log[j].body.id

C8_Witness ==
    \E i, j, k \in DOMAIN log :
        /\ i < j /\ j < k
        /\ IsPost(log[i]) /\ log[i].status = 200
        /\ IsDelete(log[j]) /\ log[j].status = 200
             /\ DecimalValue(log[j].param) = log[i].body.id
        /\ IsPost(log[k]) /\ log[k].status = 200 /\ log[k].body.id = 2

----------------------------------------------------------------------------
(* Properties of the advice generator and of the client *)

\* C6: getCounselingAdvice returns a text whatever the upstream call did,
\* never raises, and returns the connection fallback when the call failed
C6_AdviceNeverRaises ==
    lastCall # NoCall =>
        /\ lastCall.result.kind = "return"
        /\ lastCall.result.value # <<>>
        /\ lastCall.outcome.kind = "error" => lastCall.result.value = ConnectionFallback

C6_Witness ==
    /\ lastCall # NoCall
    /\ lastCall.outcome.kind = "error"
    /\ ~isLoading
    /\ Len(messages) = 2

\* C9: the assistant message of a turn is appended to a list that ends with
\* the user message of that turn: a turn adds user then assistant
C9_TurnAddsUserThenAssistant ==
    \A i \in DOMAIN messages :
        messages[i].role = "assistant"
            => /\ i > 1
               /\ messages[i - 1].role = "user"
               /\ messages[i - 1].id = messages[i].id - 1

\* The view changes of the machine as stated: start to chat, home or admin,
\* each of these back to start, and the toast's shortcut to home
StatedViewChange ==
    \/ view = "start" /\ view' \in {"chat", "home", "admin"}
    \/ view \in {"chat", "home", "admin"} /\ view' = "start"
    \/ newAnnouncementAlert # Null /\ newAnnouncementAlert' = Null /\ view' = "home"

\* C10 as stated: every view change is one of the stated machine
C10_StatedMachine == [][view' # view => StatedViewChange]_vars

\* C10, amended: the view is one of the four, no view is terminal, and a
\* view change is one of the stated machine or one of the two header
\* buttons between home and chat
C10_ViewMachine ==
    /\ [](view \in Views /\ ENABLED SetViewClick)
    /\ [][view' # view =>
             \/ StatedViewChange
             \/ view = "home" /\ view' = "chat"
             \/ view = "chat" /\ view' = "home"]_vars

C10_Witness == view = "home" /\ messages # <<>> /\ newAnnouncementAlert # Null

\* The turn a message was made by
TurnOf(m) == (m.id + 1) \div 2

\* C11: after resetChat no message of a turn submitted before the reset is in
\* the message list
C11_NoMessageFromBeforeReset ==
    \A i \in DOMAIN messages : TurnOf(messages[i]) > turnsAtReset

\* A step in which the client receives a new_announcement event: the event's
\* announcement is put in front of the list
ReceivesNewAnnouncement ==
    /\ Len(announcements') = Len(announcements) + 1
    /\ Tail(announcements') = announcements

\* C12: a new_announcement event received away from home raises the toast
\* for its announcement, one received while viewing home raises no toast
C12_ToastOnlyAwayFromHome ==
    [][ReceivesNewAnnouncement =>
          /\ view # "home" => newAnnouncementAlert' = Head(announcements')
          /\ view = "home" => newAnnouncementAlert' = newAnnouncementAlert]_vars

\* C15: at most one advice call is in flight, the loading flag is set while
\* one is, and no call is made for a blank worry
C15_OneInFlight ==
    /\ Cardinality(pendingAdvice) <= 1
    /\ isLoading <=> pendingAdvice # {}
    /\ \A p \in pendingAdvice : Trim(p.worry) # <<>>

\* C15: a step taken while loading or with a blank worry accepts no submit:
\* it starts no call and appends no user message
C15_RejectedStep ==
    (isLoading \/ Trim(worry) = <<>>) =>
        /\ turns' = turns
        /\ pendingAdvice' \subseteq pendingAdvice
        /\ \A i \in DOMAIN messages' :
              messages'[i].role = "user" => \E k \in DOMAIN messages : messages[k] = messages'[i]

\* C15: at most one advice request is in flight per client, and a submit made
\* while loading or with an empty or blank worry appends no message and
\* starts no call
C15_SingleRequest == []C15_OneInFlight /\ [][C15_RejectedStep]_vars

C15_Witness ==
    /\ isLoading
    /\ Trim(worry) # <<>>
    /\ view = "chat"
    /\ Cardinality(pendingAdvice) = 1
    /\ turns = 2

\* C13: the client's announcement list never holds two entries of one id
C13_NoDuplicateIds ==
    \A i, j \in DOMAIN announcements :
        i # j => announcements[i].id # announcements[j].id

\* Nothing of the client is on its way: no fetch, no answer, no event
Quiescent == requests = <<>> /\ responses = <<>> /\ delivered = Len(emitted)

\* C14: with every fetch answer and every event delivered, the client's list
\* holds exactly the announcements of the store
C14_ListIsStore ==
    Quiescent => {announcements[i].id : i \in DOMAIN announcements} = Ids(announcementsTable)

====
